---- MODULE Spec2Model ----
(***************************************************************************)
(* Model of the fp combinator library: the curry dispatcher (the ">="      *)
(* revision that throws on unsupported arity, the switch-based one that    *)
(* returns 0/1-ary targets unchanged, the arrow-function revision and the  *)
(* binary-only one) and the sequential reducers of the pipe and compose    *)
(* families.                                                               *)
(*                                                                         *)
(* A JavaScript call is modelled as what the callee can observe of it:     *)
(* `argc` is arguments.length and `vals` are the values bound to the       *)
(* callee's formal parameters (the first min(argc, #formals) arguments).   *)
(* A formal beyond argc reads as undefined.                                *)
(***************************************************************************)
EXTENDS Integers, Sequences, FiniteSets, TLC

VARIABLES impl, arity, kind, outer, tally, pc, curried, envs, closures,
          last, pipeRun, pl, tasks, frames, named

vars == <<impl, arity, kind, outer, tally, pc, curried, envs, closures,
          last, pipeRun, pl, tasks, frames, named>>
flowVars == <<pl, tasks, frames, named>>
curryVars == <<impl, arity, kind, outer, tally, pc, curried, envs, closures,
               last>>

(* ------------------------------ bounds -------------------------------- *)
MaxArity == 5
MaxExtra == 1
MaxClosures == 2
MaxStages == 3
MaxNum == 3
MaxConcStages == 2
MaxCurryArgs == 2
MaxTally == 3

(* ------------------------------ values -------------------------------- *)
UNDEFINED == "undefined"
Val == {UNDEFINED, "0", "1"}
Falsy == {UNDEFINED, "0"}

Impls == {"ge", "sw"}
Kinds == {"sync", "throwing", "async"}

Min(x, y) == IF x < y THEN x ELSE y

SeqsOfLen(S, n) == [1..n -> S]

(* Arguments beyond the formals are passed to the two revisions of the   *)
(* test-suite; the other revisions are called with at most the formals.  *)
Extras == IF impl \in Impls THEN MaxExtra ELSE 0

(* The calls a callee with n formals can distinguish. *)
Calls(n) ==
    UNION { { [argc |-> k, vals |-> v] : v \in SeqsOfLen(Val, Min(k, n)) }
            : k \in 0..(n + Extras) }

(* Value of the i-th formal parameter in a call. *)
Param(call, i) == IF i <= Len(call.vals) THEN call.vals[i] ELSE UNDEFINED

(* ------------------------------ target -------------------------------- *)
(* The target functions of the test-suite: one that returns its argument  *)
(* list, one that throws when its first argument is 0, one that returns a *)
(* pending computation.  The outcome carries the exact argument list the  *)
(* target was invoked with.                                               *)
Target(k, args) ==
    CASE k = "sync" -> [tag |-> "return", val |-> args, ref |-> 0]
      [] k = "throwing" ->
            IF Len(args) >= 1 /\ args[1] = "0"
            THEN [tag |-> "throw", val |-> args, ref |-> 0]
            ELSE [tag |-> "return", val |-> args, ref |-> 0]
      [] k = "async" -> [tag |-> "pending", val |-> args, ref |-> 0]

(* ------------------------ what a body decides ------------------------- *)
Invoke(args) == [act |-> "invoke", args |-> args, code |-> "none",
                 a |-> UNDEFINED, b |-> UNDEFINED]
Closure(code, a, b) == [act |-> "closure", args |-> <<>>, code |-> code,
                        a |-> a, b |-> b]
ReturnUndefined == [act |-> "undefined", args |-> <<>>, code |-> "none",
                    a |-> UNDEFINED, b |-> UNDEFINED]

(* (b) => fn(a, b) *)
last2(env, call) == Invoke(<<env.a, Param(call, 1)>>)

(* (c) => fn(a, b, c) *)
last3(env, call) == Invoke(<<env.a, env.b, Param(call, 1)>>)

(* ---------------- revision with ">=" (throws on arity) ---------------- *)
(* Variant: presence of b decided by its value instead of the count. *)
curry2_ge_byValue(call) ==
    IF Param(call, 2) # UNDEFINED
    THEN Invoke(<<Param(call, 1), Param(call, 2)>>)
    ELSE Closure("last2", Param(call, 1), UNDEFINED)

curry2_ge(call) ==
    IF call.argc >= 2
    THEN Invoke(<<Param(call, 1), Param(call, 2)>>)
    ELSE Closure("last2", Param(call, 1), UNDEFINED)

inner3_ge(env, call) ==
    IF call.argc >= 2
    THEN Invoke(<<env.a, Param(call, 1), Param(call, 2)>>)
    ELSE Closure("last3", env.a, Param(call, 1))

(* Variant: with two arguments the second one is not kept. *)
curry3_ge_dropsB(call) ==
    IF call.argc >= 3
    THEN Invoke(<<Param(call, 1), Param(call, 2), Param(call, 3)>>)
    ELSE Closure("inner3", Param(call, 1), UNDEFINED)

curry3_ge(call) ==
    IF call.argc >= 3
    THEN Invoke(<<Param(call, 1), Param(call, 2), Param(call, 3)>>)
    ELSE IF call.argc = 2
         THEN Closure("last3", Param(call, 1), Param(call, 2))
         ELSE Closure("inner3", Param(call, 1), UNDEFINED)

(* Variant: targets below arity 2 are handed back instead of rejected. *)
curry_ge_lenient(n) ==
    IF n = 2 THEN [tag |-> "closure", code |-> "curry2", msg |-> 0]
    ELSE IF n = 3 THEN [tag |-> "closure", code |-> "curry3", msg |-> 0]
    ELSE IF n < 2 THEN [tag |-> "target", code |-> "target", msg |-> 0]
    ELSE [tag |-> "throw", code |-> "none", msg |-> n]

curry_ge(n) ==
    IF n = 2 THEN [tag |-> "closure", code |-> "curry2", msg |-> 0]
    ELSE IF n = 3 THEN [tag |-> "closure", code |-> "curry3", msg |-> 0]
    ELSE [tag |-> "throw", code |-> "none", msg |-> n]

(* ------------------------ switch-based revision ----------------------- *)
(* Variant: off by one in the count test. *)
curry2_sw_offByOne(call) ==
    IF call.argc = 3
    THEN Invoke(<<Param(call, 1), Param(call, 2)>>)
    ELSE Closure("last2", Param(call, 1), UNDEFINED)

curry2_sw(call) ==
    IF call.argc = 2
    THEN Invoke(<<Param(call, 1), Param(call, 2)>>)
    ELSE Closure("last2", Param(call, 1), UNDEFINED)

(* Variant: b and c passed to the target in the wrong order. *)
inner3_sw_swapped(env, call) ==
    IF call.argc = 2
    THEN Invoke(<<env.a, Param(call, 2), Param(call, 1)>>)
    ELSE Closure("last3", env.a, Param(call, 1))

inner3_sw(env, call) ==
    IF call.argc = 2
    THEN Invoke(<<env.a, Param(call, 1), Param(call, 2)>>)
    ELSE Closure("last3", env.a, Param(call, 1))

(* Variant: `case 2:` invokes the target without waiting for c. *)
curry3_sw_eager(call) ==
    CASE call.argc = 1 -> Closure("inner3", Param(call, 1), UNDEFINED)
      [] call.argc = 2 ->
            Invoke(<<Param(call, 1), Param(call, 2), UNDEFINED>>)
      [] call.argc = 3 ->
            Invoke(<<Param(call, 1), Param(call, 2), Param(call, 3)>>)
      [] OTHER -> ReturnUndefined

curry3_sw(call) ==
    CASE call.argc = 1 -> Closure("inner3", Param(call, 1), UNDEFINED)
      [] call.argc = 2 -> Closure("last3", Param(call, 1), Param(call, 2))
      [] call.argc = 3 ->
            Invoke(<<Param(call, 1), Param(call, 2), Param(call, 3)>>)
      [] OTHER -> ReturnUndefined

(* Variant: the `case 0:` label falls through alone, `case 1:` is missing. *)
curry_sw_nullaryOnly(n) ==
    CASE n = 0 -> [tag |-> "target", code |-> "target", msg |-> 0]
      [] n = 2 -> [tag |-> "closure", code |-> "curry2", msg |-> 0]
      [] n = 3 -> [tag |-> "closure", code |-> "curry3", msg |-> 0]
      [] OTHER -> [tag |-> "undefined", code |-> "none", msg |-> 0]

curry_sw(n) ==
    CASE n = 0 \/ n = 1 -> [tag |-> "target", code |-> "target", msg |-> 0]
      [] n = 2 -> [tag |-> "closure", code |-> "curry2", msg |-> 0]
      [] n = 3 -> [tag |-> "closure", code |-> "curry3", msg |-> 0]
      [] OTHER -> [tag |-> "undefined", code |-> "none", msg |-> 0]

(* ------------- revision with arrow functions (part_000) --------------- *)
(* The wrappers are arrow functions, which have no `arguments` of their   *)
(* own: `arguments` is that of the enclosing call curry(...), so its      *)
(* length n is the number of arguments curry itself was called with.      *)
curry2_ar(n, call) ==
    IF n >= 2
    THEN Invoke(<<Param(call, 1), Param(call, 2)>>)
    ELSE Closure("last2", Param(call, 1), UNDEFINED)

inner3_ar(n, env, call) ==
    IF n >= 2
    THEN Invoke(<<env.a, Param(call, 1), Param(call, 2)>>)
    ELSE Closure("last3", env.a, Param(call, 1))

curry3_ar(n, call) ==
    IF n >= 3
    THEN Invoke(<<Param(call, 1), Param(call, 2), Param(call, 3)>>)
    ELSE IF n = 2
         THEN Closure("last3", Param(call, 1), Param(call, 2))
         ELSE Closure("inner3", Param(call, 1), UNDEFINED)

(* ------------------ binary-only revision (part_001) ------------------- *)
(* curry(fn) returns $curry whatever fn.length is. *)
curry_bin(n) == [tag |-> "closure", code |-> "curry2", msg |-> 0]

curry2_bin(call) ==
    IF call.argc = 1
    THEN Closure("last2", Param(call, 1), UNDEFINED)
    ELSE Invoke(<<Param(call, 1), Param(call, 2)>>)

(* ------------------------------ dispatch ------------------------------ *)
Revisions == {"ge", "sw", "ar", "bin"}

curry(i, n) ==
    CASE i = "ge" -> curry_ge(n)
      [] i = "sw" -> curry_sw(n)
      [] i = "ar" -> curry_ge(n)
      [] i = "bin" -> curry_bin(n)

NParams(code) ==
    CASE code = "curry2" -> 2
      [] code = "curry3" -> 3
      [] code = "inner3" -> 2
      [] code = "last2" -> 1
      [] code = "last3" -> 1
      [] code = "target" -> arity

Body(i, code, env, call) ==
    CASE code = "curry2" ->
            (CASE i = "ge" -> curry2_ge(call)
               [] i = "sw" -> curry2_sw(call)
               [] i = "ar" -> curry2_ar(outer, call)
               [] i = "bin" -> curry2_bin(call))
      [] code = "curry3" ->
            (CASE i = "ge" -> curry3_ge(call)
               [] i = "sw" -> curry3_sw(call)
               [] i = "ar" -> curry3_ar(outer, call))
      [] code = "inner3" ->
            (CASE i = "ge" -> inner3_ge(env, call)
               [] i = "sw" -> inner3_sw(env, call)
               [] i = "ar" -> inner3_ar(outer, env, call))
      [] code = "last2" -> last2(env, call)
      [] code = "last3" -> last3(env, call)
      [] code = "target" -> Invoke(call.vals)

(* Every call of a function gets an activation record of its own; the     *)
(* closures it returns capture that record.                                *)
(* Variant: one record shared by all calls (a module-level accumulator). *)
AllocShared(heap) == IF heap = <<>> THEN 1 ELSE Len(heap)

Alloc(heap) == Len(heap) + 1

Store(heap, slot, rec) ==
    IF slot = Len(heap) + 1 THEN Append(heap, rec)
    ELSE [heap EXCEPT ![slot] = rec]

(* `return fn(...)`: the target's outcome is the call's outcome. *)
(* Variant: the wrapper settles the outcome itself (awaits, swallows). *)
ForwardSettled(outcome) ==
    IF outcome.tag = "return" THEN outcome
    ELSE [tag |-> "return", val |-> outcome.val, ref |-> 0]

Forward(outcome) == outcome

NoOutcome == [tag |-> "none", val |-> <<>>, ref |-> 0]
NoEnv == [a |-> UNDEFINED, b |-> UNDEFINED]
NoCall == [callee |-> 0, code |-> "none", chain |-> <<>>, invoked |-> <<>>,
           out |-> NoOutcome]

(* The call counter of the side-effect tests: `invoked` counts the runs   *)
(* of the target (callCount++), `full` the calls that supplied every      *)
(* argument still missing, `stray` tells whether some call supplied none  *)
(* or more than were missing.  The counter exists only where `on`.        *)
NoTally == [on |-> FALSE, invoked |-> 0, full |-> 0, stray |-> FALSE]

Count(t, missing, call, r) ==
    IF ~t.on THEN t
    ELSE [on |-> TRUE,
          invoked |-> t.invoked + (IF r.act = "invoke" THEN 1 ELSE 0),
          full |-> t.full + (IF call.argc >= missing THEN 1 ELSE 0),
          stray |-> t.stray \/ call.argc \notin 1..missing]

(* Counting stops at MaxTally and after a stray call. *)
TallyOpen ==
    tally.on => (tally.invoked < MaxTally /\ tally.full < MaxTally
                   /\ ~tally.stray)

(* ------------------------------ pipe ---------------------------------- *)
(* Pipeline values: numbers, undefined, NaN, a pending computation of a   *)
(* number, and a raised error.                                            *)
Num(n) == [tag |-> "num", val |-> n]
Undefined == [tag |-> "undefined", val |-> 0]
NaN == [tag |-> "nan", val |-> 0]
Boom == [tag |-> "throw", val |-> 0]
(* a pending computation that settles to Num(n), or to NaN *)
Pending(n) == [tag |-> "pending", val |-> n]
PendingNaN == [tag |-> "pendingNaN", val |-> 0]
Str == [tag |-> "string", val |-> 0]
PendingStr == [tag |-> "pendingStr", val |-> 0]
(* A function passed where a value is expected. *)
Fn == [tag |-> "fn", val |-> 0]
(* "fns[i] is not a function" *)
TypeError == [tag |-> "throw", val |-> 1]

(* A slot of the stage list: a stage function or nothing (undefined). *)
Stages == {"add1", "double", "boom", "absent"}
StageLists == UNION { SeqsOfLen(Stages, n) : n \in 0..MaxStages }

(* a + b: two numbers add; a string, or an object (a promise, a          *)
(* function) converted to one, concatenates; undefined or NaN with a     *)
(* number is NaN.                                                        *)
Textual(v) == v.tag \in {"string", "pending", "pendingNaN", "pendingStr", "fn"}
Plus(a, b) ==
    IF a.tag = "num" /\ b.tag = "num" THEN Num(a.val + b.val)
    ELSE IF Textual(a) \/ Textual(b) THEN Str
    ELSE NaN

(* The promise an async function returns for the value v. *)
Promised(v) ==
    CASE v.tag = "num" -> Pending(v.val)
      [] v.tag = "string" -> PendingStr
      [] OTHER -> PendingNaN

(* The stage functions add1 = (x) => x + 1 and double = (x) => x * 2,     *)
(* later = async (x) => x + 1 and sum2 = (a, b) => a + b called with one  *)
(* argument.                                                              *)
Arith(id, v) ==
    CASE id = "add1" -> Plus(v, Num(1))
      [] id = "double" -> IF v.tag = "num" THEN Num(v.val * 2) ELSE NaN
      [] id = "later" -> Promised(Plus(v, Num(1)))
      [] id = "sum2" -> Plus(v, Undefined)

(* A stage call: the failing stage (x) => { throw new Error("boom") } of  *)
(* the failure-propagation scenario, or one of the arithmetic stages.     *)
StageFn(id, v) == IF id = "boom" THEN Boom ELSE Arith(id, v)

(* for (let i = ...; i < fns.length; i++) result = fns[i]?.(result);      *)
(* log lists the stage invocations made, in order, with their argument.   *)
RECURSIVE pipeSyncLoop(_, _, _, _)
pipeSyncLoop_seedDropped(fns, i, result, log) ==
    IF fns = <<>> THEN [out |-> Undefined, log |-> log]
    ELSE IF i > Len(fns) THEN [out |-> result, log |-> log]
    ELSE IF fns[i] = "absent"
         THEN pipeSyncLoop(fns, i + 1, Undefined, log)
         ELSE LET r == StageFn(fns[i], result)
                  lg == Append(log, [idx |-> i, arg |-> result])
              IN  IF r.tag = "throw" THEN [out |-> r, log |-> lg]
                  ELSE pipeSyncLoop(fns, i + 1, r, lg)

pipeSyncLoop(fns, i, result, log) ==
    IF i > Len(fns) THEN [out |-> result, log |-> log]
    ELSE IF fns[i] = "absent"
         THEN pipeSyncLoop(fns, i + 1, Undefined, log)
         ELSE LET r == StageFn(fns[i], result)
                  lg == Append(log, [idx |-> i, arg |-> result])
              IN  IF r.tag = "throw" THEN [out |-> r, log |-> lg]
                  ELSE pipeSyncLoop(fns, i + 1, r, lg)

RECURSIVE Reverse(_)
Reverse(sq) == IF sq = <<>> THEN <<>> ELSE Append(Reverse(Tail(sq)), Head(sq))

(* Variant: the stages are taken from the far end, as compose does. *)
pipeSync_rightToLeft(value, fns) == pipeSyncLoop(Reverse(fns), 1, value, <<>>)

pipeSync(value, fns) == pipeSyncLoop(fns, 1, value, <<>>)

NoPipe == [form |-> "none", seed |-> Undefined, fns |-> <<>>, log |-> <<>>,
           out |-> Undefined]

(* Nothing of the pipe and compose families has been called. *)
NoPipeline == [form |-> "none", fns |-> <<>>, cap |-> 0]
NoName == [rev |-> "none", written |-> <<>>, ret |-> "none", fns |-> <<>>,
           seed |-> Undefined]
FlowIdle ==
    /\ pl = NoPipeline
    /\ tasks = <<>>
    /\ frames = <<>>
    /\ named = NoName

(* ------------------------------ actions ------------------------------- *)
Init ==
    /\ impl \in Impls
    /\ arity \in 0..MaxArity
    /\ kind \in Kinds
    /\ outer = 1
    /\ tally = NoTally
    /\ pc = "start"
    /\ curried = [tag |-> "none", code |-> "none", msg |-> 0]
    /\ envs = <<>>
    /\ closures = <<>>
    /\ last = NoCall
    /\ pipeRun = NoPipe
    /\ FlowIdle

(* const curried = curry(fn) *)
CallCurry ==
    /\ pc = "start"
    /\ curried' = curry(impl, arity)
    /\ pc' = IF curried'.tag = "throw" THEN "failed" ELSE "ready"
    /\ UNCHANGED <<impl, arity, kind, outer, tally, envs, closures, last,
                   pipeRun, flowVars>>

(* One call of the callable `code` (with captured record env, reached by  *)
(* the call chain `chain`) by the handle `callee`.                         *)
Apply(callee, code, env, chain, call) ==
    LET r == Body(impl, code, env, call)
        ch == Append(chain, call)
    IN  /\ tally' = Count(tally, NParams(code), call, r)
        /\ CASE r.act = "invoke" ->
               /\ last' = [callee |-> callee, code |-> code, chain |-> ch,
                           invoked |-> <<r.args>>,
                           out |-> Forward(Target(kind, r.args))]
               /\ UNCHANGED <<envs, closures>>
          [] r.act = "closure" ->
               /\ Len(closures) < MaxClosures
               /\ LET slot == Alloc(envs)
                  IN  /\ envs' = Store(envs, slot, [a |-> r.a, b |-> r.b])
                      /\ closures' = Append(closures,
                             [code |-> r.code, env |-> slot, chain |-> ch])
               /\ last' = [callee |-> callee, code |-> code, chain |-> ch,
                           invoked |-> <<>>,
                           out |-> [tag |-> "closure", val |-> <<>>,
                                    ref |-> Len(closures) + 1]]
          [] OTHER ->
               /\ last' = [callee |-> callee, code |-> code, chain |-> ch,
                           invoked |-> <<>>,
                           out |-> [tag |-> "undefined", val |-> <<>>,
                                    ref |-> 0]]
               /\ UNCHANGED <<envs, closures>>

(* curried(...) *)
CallCurried ==
    /\ pc = "ready"
    /\ TallyOpen
    /\ curried.tag \in {"closure", "target"}
    /\ \E call \in Calls(NParams(curried.code)) :
          Apply(0, curried.code, NoEnv, <<>>, call)
    /\ pc' = "called"
    /\ UNCHANGED <<impl, arity, kind, outer, curried, pipeRun, flowVars>>

(* p(...) for a partial-application closure p obtained earlier *)
CallPartial ==
    /\ pc = "ready"
    /\ TallyOpen
    /\ \E h \in 1..Len(closures) :
          \E call \in Calls(NParams(closures[h].code)) :
             Apply(h, closures[h].code, envs[closures[h].env],
                   closures[h].chain, call)
    /\ pc' = "called"
    /\ UNCHANGED <<impl, arity, kind, outer, curried, pipeRun, flowVars>>

(* The caller takes the value of the call expression; the statement ends. *)
Consume ==
    /\ pc = "called"
    /\ pc' = "ready"
    /\ last' = NoCall
    /\ UNCHANGED <<impl, arity, kind, outer, tally, curried, envs, closures,
                   pipeRun, flowVars>>

Next == CallCurry \/ CallCurried \/ CallPartial \/ Consume

Spec == Init /\ [][Next]_vars

(* All four revisions of curry, for the targets they dispatch on; curry   *)
(* itself is called with the target alone or with further arguments.     *)
InitRev ==
    /\ impl \in Revisions
    /\ arity \in {2, 3}
    /\ kind = "sync"
    /\ outer \in 1..MaxCurryArgs
    /\ (impl # "ar" => outer = 1)
    /\ tally = NoTally
    /\ pc = "start"
    /\ curried = [tag |-> "none", code |-> "none", msg |-> 0]
    /\ envs = <<>>
    /\ closures = <<>>
    /\ last = NoCall
    /\ pipeRun = NoPipe
    /\ FlowIdle

RevSpec == InitRev /\ [][Next]_vars

(* The side-effect tests: a counting target behind the two revisions of  *)
(* the test-suite.                                                       *)
InitCount ==
    /\ impl \in Impls
    /\ arity \in {2, 3}
    /\ kind = "sync"
    /\ outer = 1
    /\ tally = [NoTally EXCEPT !.on = TRUE]
    /\ pc = "start"
    /\ curried = [tag |-> "none", code |-> "none", msg |-> 0]
    /\ envs = <<>>
    /\ closures = <<>>
    /\ last = NoCall
    /\ pipeRun = NoPipe
    /\ FlowIdle

CountSpec == InitCount /\ [][Next]_vars

(* ------------------------- pipe specification ------------------------- *)
InitPipe ==
    /\ impl = "ge"
    /\ arity = 2
    /\ kind = "sync"
    /\ outer = 1
    /\ tally = NoTally
    /\ pc = "start"
    /\ curried = [tag |-> "none", code |-> "none", msg |-> 0]
    /\ envs = <<>>
    /\ closures = <<>>
    /\ last = NoCall
    /\ pipeRun = NoPipe
    /\ FlowIdle

(* pipeSync(value, ...fns) *)
CallPipeSync ==
    /\ pipeRun.form = "none"
    /\ \E n \in 0..MaxNum : \E fns \in StageLists :
          LET r == pipeSync(Num(n), fns)
          IN  pipeRun' = [form |-> "pipeSync", seed |-> Num(n), fns |-> fns,
                          log |-> r.log, out |-> r.out]
    /\ UNCHANGED <<curryVars, flowVars>>

(* The caller takes the result; the statement ends. *)
ConsumePipe ==
    /\ pipeRun.form # "none"
    /\ pipeRun' = NoPipe
    /\ UNCHANGED <<curryVars, flowVars>>

NextPipe == CallPipeSync \/ ConsumePipe

PipeSpec == InitPipe /\ [][NextPipe]_vars

(* ---------------------- pipe and compose families --------------------- *)
(* pipeSync(value, ...fns), pipe(...fns) and composeSync(...fns) run to   *)
(* the end in one call; the async pipe(value, ...fns), pipeAsync(...fns)  *)
(* and compose(...fns) suspend at every await.                            *)
SyncForms == {"pipeSync", "pipeFn", "composeSync"}
AsyncForms == {"pipe", "pipeAsync", "compose"}
ApplyNowForms == {"pipe", "pipeSync"}
Forms == SyncForms \cup AsyncForms

FlowStages == {"add1", "double", "later", "boom", "absent", "sum2"}
FlowLists == UNION { SeqsOfLen(FlowStages, n) : n \in 0..MaxStages }

Nums == { Num(n) : n \in 0..MaxNum }
Seeds == Nums \cup { Pending(n) : n \in 0..MaxNum }
ArgLists == UNION { SeqsOfLen(Nums, k) : k \in 1..2 }

IsPending(v) == v.tag \in {"pending", "pendingNaN", "pendingStr"}

ResolveSkipped(v) == v

(* The value `await v` produces once v has settled. *)
Resolve(v) ==
    CASE v.tag = "pending" -> Num(v.val)
      [] v.tag = "pendingNaN" -> NaN
      [] v.tag = "pendingStr" -> Str
      [] OTHER -> v

First(args) == IF args = <<>> THEN Undefined ELSE args[1]

(* f(...args) for a stage slot holding f; a slot holding a non-function   *)
(* value ("seed") makes the call a TypeError.                             *)
StageCall(id, args) ==
    CASE id = "seed" -> TypeError
      [] id = "sum2" /\ Len(args) >= 2 -> Plus(args[1], args[2])
      [] OTHER -> StageFn(id, First(args))

(* fns[i]?.(...args) *)
SlotCall(fns, i, args) ==
    IF i \notin 1..Len(fns) \/ fns[i] = "absent"
    THEN [called |-> FALSE, ret |-> Undefined]
    ELSE [called |-> TRUE, ret |-> StageCall(fns[i], args)]

CallEvent(i, args) == [ev |-> "call", idx |-> i, args |-> args]
SettleEvent(i) == [ev |-> "settle", idx |-> i, args |-> <<>>]
Logged(log, c, i, args) == IF c.called THEN Append(log, CallEvent(i, args)) ELSE log

(* pipe(...fns): for (let i = 1; i < fns.length; i++) ...                 *)
RECURSIVE pipeFnLoop(_, _, _, _)
pipeFnLoop_continues(fns, i, result, log) ==
    IF i > Len(fns) THEN [out |-> result, log |-> log]
    ELSE LET c == SlotCall(fns, i, <<result>>)
         IN  pipeFnLoop(fns, i + 1, c.ret, Logged(log, c, i, <<result>>))

pipeFnLoop(fns, i, result, log) ==
    IF i > Len(fns) THEN [out |-> result, log |-> log]
    ELSE LET c == SlotCall(fns, i, <<result>>)
             lg == Logged(log, c, i, <<result>>)
         IN  IF c.ret.tag = "throw" THEN [out |-> c.ret, log |-> lg]
             ELSE pipeFnLoop(fns, i + 1, c.ret, lg)

pipeFn_awaitsFirst(fns, args) ==
    LET c == SlotCall(fns, 1, args)
        lg == Logged(<<>>, c, 1, args)
    IN  IF c.ret.tag = "throw" THEN [out |-> c.ret, log |-> lg]
        ELSE pipeFnLoop(fns, 2, Resolve(c.ret), lg)

(* pipe(...fns)(...args) *)
pipeFn(fns, args) ==
    LET c == SlotCall(fns, 1, args)
        lg == Logged(<<>>, c, 1, args)
    IN  IF c.ret.tag = "throw" THEN [out |-> c.ret, log |-> lg]
        ELSE pipeFnLoop(fns, 2, c.ret, lg)

(* composeSync(...fns): for (let i = fns.length - 2; i >= 0; i--) ...     *)
RECURSIVE composeSyncLoop(_, _, _, _)
composeSyncLoop(fns, i, result, log) ==
    IF i < 1 THEN [out |-> result, log |-> log]
    ELSE LET c == SlotCall(fns, i, <<result>>)
             lg == Logged(log, c, i, <<result>>)
         IN  IF c.ret.tag = "throw" THEN [out |-> c.ret, log |-> lg]
             ELSE composeSyncLoop(fns, i - 1, c.ret, lg)

composeSync_leftToRight(fns, args) == pipeFn(fns, args)

(* composeSync(...fns)(...args) *)
composeSync(fns, args) ==
    LET c == SlotCall(fns, Len(fns), args)
        lg == Logged(<<>>, c, Len(fns), args)
    IN  IF c.ret.tag = "throw" THEN [out |-> c.ret, log |-> lg]
        ELSE composeSyncLoop(fns, Len(fns) - 1, c.ret, lg)

(* pipeSync with the log in the form of the other reducers. *)
pipeSyncRun(fns, args) ==
    LET r == pipeSync(args[1], fns)
    IN  [out |-> r.out,
         log |-> [k \in 1..Len(r.log) |->
                     CallEvent(r.log[k].idx, <<r.log[k].arg>>)]]

SyncRun(form, fns, args) ==
    CASE form = "pipeSync" -> pipeSyncRun(fns, args)
      [] form = "pipeFn" -> pipeFn(fns, args)
      [] form = "composeSync" -> composeSync(fns, args)

(* What the caller passes: the seed for the apply-now forms, the argument *)
(* list of the built function otherwise (two different arguments tell    *)
(* apart the invocations of a pipeline that is called more than once).    *)
Inputs(p) ==
    IF p.form \in ApplyNowForms THEN { <<v>> : v \in Seeds }
    ELSE IF p.cap = 1 THEN ArgLists
    ELSE { <<Num(0)>>, <<Num(1)>> }

(* The activation record (result, i) of the t-th invocation. *)
FrameShared(t) == 1

Frame(t) == t

(* `await v` resumes once v has settled; a value that is not pending has. *)
CanResumeEager(task) == TRUE

CanResume(task) == ~IsPending(task.awaiting) \/ task.settled

(* How the caller receives the outcome: a function without try/catch     *)
(* returns or throws; an async function fulfils or rejects its promise.  *)
Completion(form, out) ==
    IF form \in AsyncForms
    THEN IF out.tag = "throw" THEN "rejected" ELSE "fulfilled"
    ELSE IF out.tag = "throw" THEN "thrown" ELSE "returned"

Done(form, args, log, out) ==
    [args |-> args, awaiting |-> Undefined, settled |-> FALSE, log |-> log,
     st |-> "done", out |-> out, how |-> Completion(form, out)]

Awaiting(args, log, v) ==
    [args |-> args, awaiting |-> v, settled |-> FALSE, log |-> log,
     st |-> "awaiting", out |-> Undefined, how |-> "pending"]

(* The index an async form calls first (0: none, the seed is awaited). *)
FirstIndex(form, fns) ==
    CASE form = "pipe" -> 0
      [] form = "pipeAsync" -> 1
      [] form = "compose" -> Len(fns)

(* Variant: the loop of the pipe family steps over every other stage. *)
NextIndex_skipping(form, i) == IF form = "compose" THEN i - 1 ELSE i + 2

NextIndex(form, i) == IF form = "compose" THEN i - 1 ELSE i + 1

(* The call of the pipeline: a sync form runs to its end; an async form   *)
(* runs to its first await and returns the pending computation.           *)
StartRun ==
    /\ pl.form \in Forms
    /\ Len(tasks) < pl.cap
    /\ \E args \in Inputs(pl) :
          LET t == Len(tasks) + 1
          IN  IF pl.form \in SyncForms
              THEN LET r == SyncRun(pl.form, pl.fns, args)
                   IN  /\ tasks' = Append(tasks, Done(pl.form, args, r.log, r.out))
                       /\ frames' = Store(frames, Frame(t),
                                          [result |-> r.out, i |-> 0])
              ELSE IF pl.form = "pipe"
              THEN /\ tasks' = Append(tasks, Awaiting(args, <<>>, args[1]))
                   /\ frames' = Store(frames, Frame(t),
                                      [result |-> Undefined, i |-> 0])
              ELSE LET i == FirstIndex(pl.form, pl.fns)
                       c == SlotCall(pl.fns, i, args)
                       lg == Logged(<<>>, c, i, args)
                   IN  /\ tasks' = Append(tasks,
                             IF c.ret.tag = "throw"
                             THEN Done(pl.form, args, lg, c.ret)
                             ELSE Awaiting(args, lg, c.ret))
                       /\ frames' = Store(frames, Frame(t),
                                          [result |-> Undefined, i |-> i])
    /\ UNCHANGED <<curryVars, pipeRun, pl, named>>

(* The pending computation an invocation awaits settles. *)
Settle ==
    /\ \E t \in 1..Len(tasks) :
          /\ tasks[t].st = "awaiting"
          /\ IsPending(tasks[t].awaiting)
          /\ ~tasks[t].settled
          /\ tasks' = [tasks EXCEPT ![t].settled = TRUE,
                         ![t].log = Append(@, SettleEvent(frames[Frame(t)].i))]
    /\ UNCHANGED <<curryVars, pipeRun, pl, frames, named>>

(* result = await ...; then i++ (i--), the test, and the next stage call  *)
(* or `return result`.                                                    *)
Resume ==
    /\ \E t \in 1..Len(tasks) :
          /\ tasks[t].st = "awaiting"
          /\ CanResume(tasks[t])
          /\ LET f == Frame(t)
                 v == Resolve(tasks[t].awaiting)
                 nxt == NextIndex(pl.form, frames[f].i)
                 c == SlotCall(pl.fns, nxt, <<v>>)
                 lg == Logged(tasks[t].log, c, nxt, <<v>>)
             IN  IF nxt \notin 1..Len(pl.fns)
                 THEN /\ tasks' = [tasks EXCEPT
                             ![t] = Done(pl.form, tasks[t].args,
                                         tasks[t].log, v)]
                      /\ frames' = [frames EXCEPT ![f] =
                                       [result |-> v, i |-> nxt]]
                 ELSE /\ tasks' = [tasks EXCEPT ![t] =
                             IF c.ret.tag = "throw"
                             THEN Done(pl.form, tasks[t].args, lg, c.ret)
                             ELSE Awaiting(tasks[t].args, lg, c.ret)]
                      /\ frames' = [frames EXCEPT ![f] =
                                       [result |-> v, i |-> nxt]]
    /\ UNCHANGED <<curryVars, pipeRun, pl, named>>

NextFlow == StartRun \/ Settle \/ Resume

CurryIdle ==
    /\ impl = "ge"
    /\ arity = 2
    /\ kind = "sync"
    /\ outer = 1
    /\ tally = NoTally
    /\ pc = "start"
    /\ curried = [tag |-> "none", code |-> "none", msg |-> 0]
    /\ envs = <<>>
    /\ closures = <<>>
    /\ last = NoCall
    /\ pipeRun = NoPipe

(* One invocation of any form of pipeline. *)
InitFlow ==
    /\ CurryIdle
    /\ pl \in [form : Forms, fns : FlowLists, cap : {1}]
    /\ tasks = <<>>
    /\ frames = <<>>
    /\ named = NoName

FlowSpec == InitFlow /\ [][NextFlow]_vars

(* ------------------------- the name `pipe` ---------------------------- *)
(* pipe.ts defines `pipe` twice: pipe(value, ...fns) (apply now, async)   *)
(* and pipe(...fns) (build).  A written call pipe(a1, ..., an) lists its  *)
(* arguments: "seed" for a non-function value, a stage name for a         *)
(* function.                                                              *)
Revs == {"applyNow", "build"}
NameStages == {"add1", "double", "later"}
NameLists == UNION { SeqsOfLen(NameStages, n) : n \in 0..MaxStages }
Written == NameLists \cup { <<"seed">> \o fns : fns \in NameLists }
HasSeed(w) == w # <<>> /\ w[1] = "seed"

(* The value an argument of the written call denotes. *)
AsValue(w, seed) ==
    IF w = <<>> THEN Undefined ELSE IF w[1] = "seed" THEN seed ELSE Fn

(* Variant: one function that looks at its first argument. *)
pipeNamed_dispatching(rev, w, seed) ==
    IF HasSeed(w)
    THEN [ret |-> "promise", form |-> "pipe", fns |-> Tail(w), value |-> seed]
    ELSE [ret |-> "function", form |-> "pipeFn", fns |-> w, value |-> Undefined]

(* pipe(...w): what each definition binds and returns. *)
pipeNamed(rev, w, seed) ==
    IF rev = "build"
    THEN [ret |-> "function", form |-> "pipeFn", fns |-> w, value |-> Undefined]
    ELSE [ret |-> "promise", form |-> "pipe",
          fns |-> IF w = <<>> THEN <<>> ELSE Tail(w),
          value |-> AsValue(w, seed)]

(* The written call is evaluated; the apply-now definition runs to its    *)
(* first await.                                                           *)
CallPipe ==
    /\ named.ret = "none"
    /\ named.rev \in Revs
    /\ LET r == pipeNamed(named.rev, named.written, named.seed)
       IN  /\ named' = [named EXCEPT !.ret = r.ret, !.fns = r.fns]
           /\ pl' = [form |-> r.form, fns |-> r.fns, cap |-> 1]
           /\ IF r.ret = "promise"
              THEN /\ tasks' = <<Awaiting(<<r.value>>, <<>>, r.value)>>
                   /\ frames' = Store(frames, Frame(1),
                                      [result |-> Undefined, i |-> 0])
              ELSE UNCHANGED <<tasks, frames>>
    /\ UNCHANGED <<curryVars, pipeRun>>

(* StartRun is the call of the function the build definition returned. *)
NextName ==
    \/ CallPipe
    \/ (named.ret # "none" /\ NextFlow)

InitName ==
    /\ CurryIdle
    /\ pl = NoPipeline
    /\ tasks = <<>>
    /\ frames = <<>>
    /\ \E rev \in Revs : \E w \in Written :
          \E seed \in (IF HasSeed(w) THEN Nums ELSE {Undefined}) :
             named = [rev |-> rev, written |-> w, ret |-> "none",
                      fns |-> <<>>, seed |-> seed]

NameSpec == InitName /\ [][NextName]_vars

(* Two invocations of one built async pipeline, in flight together. *)
Runs == {1, 2}

InitConc ==
    /\ CurryIdle
    /\ pl \in [form : AsyncForms \ ApplyNowForms,
                fns : UNION { SeqsOfLen(FlowStages, n) : n \in 0..MaxConcStages },
                cap : {Cardinality(Runs)}]
    /\ tasks = <<>>
    /\ frames = <<>>
    /\ named = NoName

ConcSpec == InitConc /\ [][NextFlow]_vars

(* ============================== claims =============================== *)
(* The argument counts of the calls of a chain, e.g. <<1, 2>> for (a)(b, c). *)
Shape(ch) == [i \in 1..Len(ch) |-> ch[i].argc]

(* The values a chain of calls bound to formals, in order. *)
RECURSIVE Flatten(_)
Flatten(ch) == IF ch = <<>> THEN <<>> ELSE Head(ch).vals \o Flatten(Tail(ch))

(* Every call of the chain supplies at least one argument and none beyond *)
(* those still missing.                                                    *)
RECURSIVE Sum(_)
Sum(sq) == IF sq = <<>> THEN 0 ELSE Head(sq) + Sum(Tail(sq))

WellFormed(ch) ==
    /\ \A i \in 1..Len(ch) : ch[i].argc >= 1
    /\ Sum(Shape(ch)) <= arity

Returned == pc = "called"

(* C1: for a binary target, curried(a, b) invokes f(a, b) at once and     *)
(* returns its result; curried(a) returns a unary function g without      *)
(* invoking f, and g(b) returns f(a, b).                                  *)
C1_Binary ==
    (Returned /\ arity = 2 /\ impl \in {"ge", "sw"}) =>
       LET ch == last.chain
       IN  /\ Shape(ch) = <<2>> =>
                /\ last.invoked = << ch[1].vals >>
                /\ last.out = Target(kind, ch[1].vals)
           /\ Shape(ch) = <<1>> =>
                /\ last.invoked = <<>>
                /\ last.out.tag = "closure"
                /\ NParams(closures[last.out.ref].code) = 1
           /\ Shape(ch) = <<1, 1>> =>
                /\ last.invoked = << <<ch[1].vals[1], ch[2].vals[1]>> >>
                /\ last.out = Target(kind, <<ch[1].vals[1], ch[2].vals[1]>>)

C1_Witness ==
    /\ Returned /\ arity = 2 /\ kind = "sync"
    /\ Shape(last.chain) = <<1, 1>>
    /\ last.out.tag = "return"
    /\ last.out.val = <<"1", "0">>

(* C2: for a ternary target each of the call shapes (a,b,c), (a,b)(c),    *)
(* (a)(b,c) and (a)(b)(c) invokes the target once with exactly (a, b, c)  *)
(* in that order and returns f(a, b, c).                                  *)
C2_Ternary ==
    (Returned /\ arity = 3 /\ impl \in {"ge", "sw"}
        /\ Shape(last.chain) \in {<<3>>, <<2, 1>>, <<1, 2>>, <<1, 1, 1>>}) =>
       /\ Len(Flatten(last.chain)) = 3
       /\ last.invoked = << Flatten(last.chain) >>
       /\ last.out = Target(kind, Flatten(last.chain))

C2_Witness ==
    /\ Returned /\ arity = 3 /\ kind = "sync" /\ impl = "sw"
    /\ Shape(last.chain) = <<1, 2>>
    /\ last.out.tag = "return"
    /\ last.out.val = <<"1", "0", UNDEFINED>>

(* C3: extra arguments are discarded at every dispatch level: a call that *)
(* supplies more arguments than are still missing invokes the target at   *)
(* once with exactly the declared number of arguments and returns its     *)
(* result.                                                                *)
CompletesWithExtras(ch) ==
    /\ ch # <<>>
    /\ \A i \in 1..Len(ch) : ch[i].argc >= 1
    /\ Sum(Shape(SubSeq(ch, 1, Len(ch) - 1))) < arity
    /\ Sum(Shape(ch)) > arity

C3_ExtraArgumentsDiscarded ==
    (Returned /\ arity \in {2, 3} /\ CompletesWithExtras(last.chain)) =>
       /\ Len(Flatten(last.chain)) = arity
       /\ last.invoked = << Flatten(last.chain) >>
       /\ last.out = Target(kind, Flatten(last.chain))

(* C4: whether a call invokes the target or returns a waiting function is *)
(* decided by the number of arguments passed alone: a call that brings    *)
(* the count to the declared arity invokes the target with exactly the    *)
(* values passed, undefined and 0 included, and a call that leaves        *)
(* arguments missing returns a waiting function whatever the values.      *)
C4_PresenceByCount ==
    (Returned /\ arity \in {2, 3} /\ impl \in {"ge", "sw"}
        /\ WellFormed(last.chain)) =>
       IF Sum(Shape(last.chain)) = arity
       THEN last.invoked = << Flatten(last.chain) >>
       ELSE last.invoked = <<>> /\ last.out.tag = "closure"

C4_Witness ==
    /\ Returned /\ arity = 2 /\ impl = "ge"
    /\ last.chain = << [argc |-> 2, vals |-> <<"0", UNDEFINED>>] >>
    /\ last.invoked = << <<"0", UNDEFINED>> >>

(* C5: for a target of declared arity 4 or more, curry(f) fails at once   *)
(* with an error whose message names the arity; it returns nothing.       *)
C5_UnsupportedArityThrows ==
    (pc # "start" /\ arity >= 4) =>
       /\ curried.tag = "throw"
       /\ curried.msg = arity
       /\ pc = "failed"

Captured(h) ==
    LET e == envs[closures[h].env]
    IN  IF closures[h].code = "last3" THEN <<e.a, e.b>> ELSE <<e.a>>

C8_PartialsIndependent ==
    /\ \A h \in 1..Len(closures) :
          WellFormed(closures[h].chain) =>
             Captured(h) = Flatten(closures[h].chain)
    /\ (Returned /\ last.callee > 0 /\ WellFormed(last.chain)
           /\ last.invoked # <<>>) =>
          last.invoked = << Flatten(last.chain) >>

C8_Witness ==
    /\ Returned /\ arity = 3
    /\ Len(closures) = 2
    /\ WellFormed(closures[1].chain) /\ WellFormed(closures[2].chain)
    /\ Shape(closures[1].chain) = Shape(closures[2].chain)
    /\ Captured(1) # Captured(2)
    /\ last.callee = 1
    /\ last.out.tag = "return"

(* C9: a call that invokes the target returns exactly the target's        *)
(* outcome: the error it throws propagates as that error, a pending       *)
(* computation is returned still pending; a partial application returns a *)
(* function and never throws, even with arguments the target rejects.     *)
C9_OutcomeForwarded ==
    Returned =>
       /\ last.invoked # <<>> =>
            /\ last.out.val = last.invoked[1]
            /\ last.out.tag =
                 CASE kind = "async" -> "pending"
                   [] kind = "throwing" /\ last.invoked[1] # <<>>
                         /\ last.invoked[1][1] = "0" -> "throw"
                   [] OTHER -> "return"
       /\ last.invoked = <<>> => last.out.tag \in {"closure", "undefined"}

C9_Witness ==
    /\ Returned /\ arity = 2 /\ impl = "ge" /\ kind = "throwing"
    /\ Shape(last.chain) = <<1, 1>>
    /\ last.chain[1].vals = <<"0">>
    /\ last.out.tag = "throw"
    /\ closures[1].code = "last2"

(* C10: pipeSync(x, f1, ..., fn) applies the stages left to right, index  *)
(* 0 first, each stage receiving the previous stage's result as its sole  *)
(* argument: pipeSync(x, f, g) is g(f(x)).                                *)
Then(v, id) == IF v.tag = "throw" THEN v ELSE StageFn(id, v)

AllPresent(fns) == \A i \in 1..Len(fns) : fns[i] # "absent"

C10_PipeSyncLeftToRight ==
    (pipeRun.form = "pipeSync" /\ AllPresent(pipeRun.fns)) =>
       LET fns == pipeRun.fns
           x == pipeRun.seed
           log == pipeRun.log
       IN  /\ Len(fns) = 1 => pipeRun.out = Then(x, fns[1])
           /\ Len(fns) = 2 => pipeRun.out = Then(Then(x, fns[1]), fns[2])
           /\ Len(fns) = 3 =>
                pipeRun.out = Then(Then(Then(x, fns[1]), fns[2]), fns[3])
           /\ \A k \in 1..Len(log) : log[k].idx = k
           /\ Len(log) >= 1 => log[1].arg = x
           /\ \A k \in 2..Len(log) :
                 log[k].arg = StageFn(fns[k - 1], log[k - 1].arg)
           /\ pipeRun.out.tag # "throw" =>
                /\ Len(log) = Len(fns)
                /\ Len(fns) >= 1 =>
                     pipeRun.out = StageFn(fns[Len(fns)], log[Len(fns)].arg)

C10_Witness ==
    /\ pipeRun.form = "pipeSync"
    /\ pipeRun.seed = Num(3)
    /\ pipeRun.fns = <<"add1", "double">>
    /\ pipeRun.out = Num(8)

(* ---------------------- pipe and compose claims ------------------------ *)
IsCall(e) == e.ev = "call"
CallsOf(log) == SelectSeq(log, IsCall)
NoAbsent(fns) == \A k \in 1..Len(fns) : fns[k] # "absent"
Raises(fns) == \E k \in 1..Len(fns) : fns[k] = "boom"

(* g(await f(x)) written from the outside in: the n-th stage applied to   *)
(* the awaited value of the nesting of the first n - 1.                   *)
RECURSIVE AwaitNest(_, _, _)
AwaitNest(fns, n, x) ==
    IF n = 0 THEN Resolve(x)
    ELSE LET inner == AwaitNest(fns, n - 1, x)
         IN  IF inner.tag = "throw" THEN inner
             ELSE Resolve(StageCall(fns[n], <<inner>>))

(* C11: the apply-now async pipe(x, f, g) resolves to await g(await f(x)); *)
(* a pending seed is settled before the first stage is called, and every  *)
(* stage is called with a settled value, never with a pending one.        *)
C11_PipeAwaitsEachStage ==
    pl.form = "pipe" =>
      \A t \in 1..Len(tasks) :
         LET task == tasks[t]
             seed == task.args[1]
             calls == CallsOf(task.log)
         IN  /\ \A k \in 1..Len(calls) :
                   \A j \in 1..Len(calls[k].args) : ~IsPending(calls[k].args[j])
             /\ (IsPending(seed) /\ calls # <<>>) =>
                   task.log[1] = SettleEvent(0)
             /\ calls # <<>> /\ NoAbsent(pl.fns) =>
                   calls[1] = CallEvent(1, <<Resolve(seed)>>)
             /\ (task.st = "done" /\ NoAbsent(pl.fns)) =>
                   task.out = AwaitNest(pl.fns, Len(pl.fns), seed)

C11_Witness ==
    /\ pl.form = "pipe"
    /\ pl.fns = <<"later", "double">>
    /\ \E t \in 1..Len(tasks) :
          /\ tasks[t].st = "done"
          /\ IsPending(tasks[t].args[1])
          /\ tasks[t].out = Num(2 * (tasks[t].args[1].val + 1))

(* f(g(...args)) written from the outside in; aw: each call is awaited. *)
RECURSIVE ComposeNest(_, _, _, _)
ComposeNest(fns, k, args, aw) ==
    LET inner == ComposeNest(fns, k + 1, args, aw)
        r == IF k = Len(fns) THEN StageCall(fns[k], args)
             ELSE IF inner.tag = "throw" THEN inner
             ELSE StageCall(fns[k], <<inner>>)
    IN  IF aw THEN Resolve(r) ELSE r

Descending(calls) ==
    \A k \in 1..Len(calls) : \A j \in 1..Len(calls) :
        k < j => calls[k].idx > calls[j].idx

(* C12: compose and composeSync run their stages right to left: the last  *)
(* stage is called first, with the whole argument list; each earlier     *)
(* stage gets the single result of the stage after it;                   *)
(* composeSync(f, g)(x) = f(g(x)) and compose(f, g)(x) resolves to       *)
(* await f(await g(x)).                                                   *)
C12_ComposeRightToLeft ==
    pl.form \in {"compose", "composeSync"} =>
      \A t \in 1..Len(tasks) :
         LET task == tasks[t]
             calls == CallsOf(task.log)
             n == Len(pl.fns)
         IN  /\ Descending(calls)
             /\ (n > 0 /\ pl.fns[n] # "absent") =>
                   calls[1] = CallEvent(n, task.args)
             /\ \A k \in 2..Len(calls) : Len(calls[k].args) = 1
             /\ (task.st = "done" /\ n > 0 /\ NoAbsent(pl.fns)) =>
                   task.out = ComposeNest(pl.fns, 1, task.args,
                                          pl.form = "compose")

C12_Witness ==
    /\ pl.form \in {"compose", "composeSync"}
    /\ pl.fns = <<"add1", "double", "sum2">>
    /\ \E t \in 1..Len(tasks) :
          /\ tasks[t].st = "done"
          /\ Len(tasks[t].args) = 2
          /\ tasks[t].args[2] # Num(0)
          /\ tasks[t].out =
                Num(2 * (tasks[t].args[1].val + tasks[t].args[2].val) + 1)

Failed(form) == IF form \in SyncForms THEN "thrown" ELSE "rejected"

(* C13: when a stage fails in the middle of a pipeline, the pipeline      *)
(* fails with that same error and no later stage is called; pipeSync,    *)
(* the built pipe and composeSync raise it to the caller synchronously,  *)
(* the apply-now pipe, pipeAsync and compose reject their promise with   *)
(* it.                                                                    *)
C13_FailureStopsPipeline ==
    \A t \in 1..Len(tasks) :
       LET task == tasks[t]
       IN  /\ \A k \in 1..Len(task.log) :
                 (IsCall(task.log[k]) /\ pl.fns[task.log[k].idx] = "boom") =>
                     /\ k = Len(task.log)
                     /\ task.st = "done"
                     /\ task.out = Boom
                     /\ task.how = Failed(pl.form)
           /\ task.how \in {"thrown", "rejected"} =>
                 /\ task.log # <<>>
                 /\ IsCall(task.log[Len(task.log)])
                 /\ pl.fns[task.log[Len(task.log)].idx] = "boom"

C13_Witness ==
    /\ Len(pl.fns) = 3
    /\ pl.fns[2] = "boom"
    /\ pl.fns[1] # "absent"
    /\ pl.fns[3] # "absent"
    /\ \E t \in 1..Len(tasks) :
          /\ tasks[t].st = "done"
          /\ tasks[t].out = Boom
          /\ tasks[t].how = Failed(pl.form)
          /\ Len(CallsOf(tasks[t].log)) = 2

(* C14: with no stages the apply-now forms hand the seed back:           *)
(* pipeSync(x) returns x itself and pipe(x) resolves to the settled      *)
(* value of x; no stage is called.                                       *)
C14_ApplyNowNoStages ==
    (pl.form \in ApplyNowForms /\ pl.fns = <<>>) =>
      \A t \in 1..Len(tasks) :
         LET task == tasks[t]
             seed == task.args[1]
         IN  /\ CallsOf(task.log) = <<>>
             /\ task.st = "done" =>
                   /\ pl.form = "pipeSync" =>
                         task.out = seed /\ task.how = "returned"
                   /\ pl.form = "pipe" =>
                         task.out = Resolve(seed) /\ task.how = "fulfilled"

C14_Witness ==
    /\ pl.form \in ApplyNowForms
    /\ pl.fns = <<>>
    /\ \E t \in 1..Len(tasks) :
          /\ tasks[t].st = "done"
          /\ IsPending(tasks[t].args[1])
          /\ tasks[t].out.val = tasks[t].args[1].val

(* C15: a prebuilt pipeline with zero stages (pipe(), pipeAsync(),       *)
(* compose(), composeSync()) echoes its input: called with x it returns, *)
(* or in async mode resolves to, x.                                      *)
C15_PrebuiltNoStagesEcho ==
    (pl.form \in Forms \ ApplyNowForms /\ pl.fns = <<>>) =>
      \A t \in 1..Len(tasks) :
         (tasks[t].st = "done" /\ Len(tasks[t].args) = 1) =>
             tasks[t].out = tasks[t].args[1]

IsPresent(id) == id # "absent"
Compact(fns) == SelectSeq(fns, IsPresent)

(* The outcome of a pipeline whose stages are all functions, by nesting. *)
Expected(form, fns, args) ==
    CASE form = "pipeSync" -> pipeSync(args[1], fns).out
      [] form = "pipeFn" -> pipeFn(fns, args).out
      [] form = "composeSync" -> composeSync(fns, args).out
      [] form = "pipe" -> AwaitNest(fns, Len(fns), args[1])
      [] form = "compose" ->
            IF fns = <<>> THEN Undefined ELSE ComposeNest(fns, 1, args, TRUE)
      [] form = "pipeAsync" ->
            IF fns = <<>> THEN Undefined
            ELSE ComposeNest(Reverse(fns), 1, args, TRUE)

(* C16: an absent (undefined) position in the stage list acts as the     *)
(* identity: the accumulated value is carried unchanged to the next      *)
(* stage, so the result is that of the pipeline with the absent          *)
(* positions removed (stated for lists that keep at least one stage).    *)
C16_AbsentStageIsIdentity ==
    \A t \in 1..Len(tasks) :
       (tasks[t].st = "done" /\ Compact(pl.fns) # <<>>) =>
           tasks[t].out = Expected(pl.form, Compact(pl.fns), tasks[t].args)

ReturnsPending(e) == IsCall(e) /\ IsPending(StageCall(pl.fns[e.idx], e.args))

(* The stages of an invocation that were called and whose pending result *)
(* has not settled yet.                                                  *)
InProgress(log) ==
    { k \in 1..Len(log) :
        /\ ReturnsPending(log[k])
        /\ \A j \in (k + 1)..Len(log) : log[j] # SettleEvent(log[k].idx) }

InDirection(form, calls) ==
    \A k \in 1..Len(calls) : \A j \in 1..Len(calls) :
        k < j => IF form = "compose" THEN calls[k].idx > calls[j].idx
                 ELSE calls[k].idx < calls[j].idx

(* C18: in the async forms (apply-now pipe, pipeAsync, compose) the next *)
(* stage of an invocation is not called until the pending result of the  *)
(* stage before it has settled; never are two stages of one invocation   *)
(* in progress; stages start in the pipeline's direction, each at most   *)
(* once.                                                                 *)
C18_StagesSequential ==
    pl.form \in AsyncForms =>
      \A t \in 1..Len(tasks) :
         LET log == tasks[t].log
         IN  /\ \A k \in 1..(Len(log) - 1) :
                   ReturnsPending(log[k]) => log[k + 1] = SettleEvent(log[k].idx)
             /\ Cardinality(InProgress(log)) <= 1
             /\ InDirection(pl.form, CallsOf(log))

C18_Witness ==
    /\ pl.form \in AsyncForms
    /\ pl.fns = <<"later", "later">>
    /\ \E t \in 1..Len(tasks) :
          /\ tasks[t].st = "done"
          /\ Len(CallsOf(tasks[t].log)) = 2
          /\ InProgress(tasks[t].log) = {}
          /\ tasks[t].out.tag = "num"

(* C20: in the sync forms (pipeSync, built pipe, composeSync) a stage    *)
(* that returns a pending computation is not awaited: the next stage is  *)
(* called at once with the pending computation itself, and the call      *)
(* returns without suspending.                                           *)
C20_SyncPassesPendingThrough ==
    pl.form \in SyncForms =>
      \A t \in 1..Len(tasks) :
         LET task == tasks[t]
             calls == CallsOf(task.log)
         IN  /\ task.st = "done"
             /\ task.how \in {"returned", "thrown"}
             /\ calls = task.log
             /\ \A k \in 1..(Len(calls) - 1) :
                   (/\ ReturnsPending(calls[k])
                    /\ calls[k + 1].idx - calls[k].idx \in {1, -1}) =>
                       calls[k + 1].args =
                           <<StageCall(pl.fns[calls[k].idx], calls[k].args)>>
             /\ (calls # <<>> /\ ReturnsPending(calls[Len(calls)])
                    /\ calls[Len(calls)].idx =
                          (IF pl.form = "composeSync" THEN 1 ELSE Len(pl.fns))) =>
                   task.out = StageCall(pl.fns[calls[Len(calls)].idx],
                                        calls[Len(calls)].args)

C20_Witness ==
    /\ pl.form \in SyncForms
    /\ \E t \in 1..Len(tasks) :
          LET calls == CallsOf(tasks[t].log)
          IN  /\ Len(calls) = 2
              /\ pl.fns[calls[1].idx] = "later"
              /\ pl.fns[calls[2].idx] = "add1"
              /\ IsPending(calls[2].args[1])
              /\ tasks[t].out = Str

(* An async pipeline run alone, from its first call to its end. *)
RECURSIVE AloneLoop(_, _, _, _, _)
AloneLoop(form, fns, i, result, log) ==
    IF i \notin 1..Len(fns) THEN [out |-> result, log |-> log]
    ELSE LET c == SlotCall(fns, i, <<result>>)
             lg == Logged(log, c, i, <<result>>)
         IN  IF c.ret.tag = "throw" THEN [out |-> c.ret, log |-> lg]
             ELSE AloneLoop(form, fns, NextIndex(form, i), Resolve(c.ret),
                            IF IsPending(c.ret)
                            THEN Append(lg, SettleEvent(i)) ELSE lg)

Alone(form, fns, args) ==
    LET i == FirstIndex(form, fns)
        c == SlotCall(fns, i, args)
        lg == Logged(<<>>, c, i, args)
    IN  IF c.ret.tag = "throw" THEN [out |-> c.ret, log |-> lg]
        ELSE AloneLoop(form, fns, NextIndex(form, i), Resolve(c.ret),
                       IF IsPending(c.ret)
                       THEN Append(lg, SettleEvent(i)) ELSE lg)

IsPrefix(p, q) == Len(p) <= Len(q) /\ \A k \in 1..Len(p) : p[k] = q[k]

(* C19: two invocations of the same built async pipeline that are in     *)
(* flight together, their steps interleaved at the awaits in any order,  *)
(* each make the calls and produce the result they make and produce when *)
(* run alone; neither uses the other's accumulated value.                *)
C19_InvocationsIndependent ==
    pl.form \in {"pipeAsync", "compose"} =>
      \A t \in 1..Len(tasks) :
         LET task == tasks[t]
             alone == Alone(pl.form, pl.fns, task.args)
         IN  /\ IsPrefix(task.log, alone.log)
             /\ task.st = "done" =>
                   task.out = alone.out /\ task.log = alone.log
             /\ \A u \in 1..Len(tasks) : u # t => Frame(u) # Frame(t)

C19_Witness ==
    /\ Len(tasks) = 2
    /\ Len(pl.fns) >= 2
    /\ tasks[1].args # tasks[2].args
    /\ tasks[1].st = "done"
    /\ tasks[2].st = "done"
    /\ tasks[1].out # tasks[2].out
    /\ \E k \in 1..Len(tasks[1].log) : tasks[1].log[k].ev = "settle"
    /\ \E k \in 1..Len(tasks[2].log) : tasks[2].log[k].ev = "settle"

OwnCall == last.chain[Len(last.chain)]
Wrapper(code) == code \in {"curry2", "curry3", "inner3", "last2", "last3"}

(* C21: at every curry level the choice between invoking the target and  *)
(* returning a waiting function follows the number of arguments of that  *)
(* very call: a call that supplies between one and all of the arguments  *)
(* still missing invokes the target exactly when it supplies all of      *)
(* them, whatever the call curry(target) was passed.                     *)
C21_DispatchByOwnCount ==
    (pc = "called" /\ Wrapper(last.code)
       /\ OwnCall.argc \in 1..NParams(last.code)) =>
          (Len(last.invoked) = 1 <=> OwnCall.argc = NParams(last.code))

RECURSIVE PipeNest(_, _, _, _)
PipeNest(fns, k, args, aw) ==
    LET inner == PipeNest(fns, k - 1, args, aw)
        r == IF k = 1 THEN StageCall(fns[1], args)
             ELSE IF inner.tag = "throw" THEN inner
             ELSE StageCall(fns[k], <<inner>>)
    IN  IF aw THEN Resolve(r) ELSE r

(* C23: a function built by pipe(f1, ..., fn) or pipeAsync(f1, ..., fn)  *)
(* passes its whole argument list to f1 only; every later stage is       *)
(* called with exactly one argument, the result of the stage before it   *)
(* (awaited in pipeAsync), so that pipe(f, g, h)(x) is h(g(f(x))).       *)
C23_BuiltPipeThreadsResult ==
    (pl.form \in {"pipeFn", "pipeAsync"} /\ NoAbsent(pl.fns)) =>
      \A t \in 1..Len(tasks) :
         LET task == tasks[t]
             calls == CallsOf(task.log)
             n == Len(pl.fns)
             aw == pl.form = "pipeAsync"
         IN  /\ \A k \in 1..Len(calls) : calls[k].idx = k
             /\ calls # <<>> => calls[1].args = task.args
             /\ \A k \in 2..Len(calls) :
                   calls[k].args = <<PipeNest(pl.fns, k - 1, task.args, aw)>>
             /\ (task.st = "done" /\ n > 0) =>
                   task.out = PipeNest(pl.fns, n, task.args, aw)

C23_Witness ==
    /\ pl.form \in {"pipeFn", "pipeAsync"}
    /\ pl.fns = <<"sum2", "add1", "double">>
    /\ \E t \in 1..Len(tasks) :
          /\ tasks[t].st = "done"
          /\ Len(tasks[t].args) = 2
          /\ tasks[t].args[2] # Num(0)
          /\ tasks[t].out =
                Num(2 * (tasks[t].args[1].val + tasks[t].args[2].val + 1))

(* C24: on the curried callable and on every nested partial closure, a   *)
(* call that supplies fewer arguments than are still missing, a call     *)
(* with no argument included, does not invoke the target and returns a   *)
(* callable that awaits the rest.                                        *)
C24_TooFewNeverInvokes ==
    (pc = "called" /\ Wrapper(last.code)
       /\ OwnCall.argc < NParams(last.code)) =>
          /\ last.invoked = <<>>
          /\ last.out.tag = "closure"

(* The record the callable of the last call had captured. *)
OwnEnv == IF last.callee = 0 THEN NoEnv ELSE envs[closures[last.callee].env]

(* What the last call did, as a body's decision. *)
Observed ==
    CASE last.out.tag = "closure" ->
            Closure(closures[last.out.ref].code,
                    envs[closures[last.out.ref].env].a,
                    envs[closures[last.out.ref].env].b)
      [] last.out.tag = "undefined" -> ReturnUndefined
      [] OTHER -> Invoke(last.invoked[1])

(* C25: for targets of arity 2 and 3 the revision that tests the count   *)
(* with >= and the switch-based revision cannot be told apart on call    *)
(* chains whose calls each supply at least one argument and no more than *)
(* are still missing: curry returns the same kind of wrapper, and every  *)
(* call invokes the target with the same arguments or returns the same   *)
(* kind of waiting closure with the same captured arguments.             *)
C25_RevisionsEquivalent ==
    (arity \in {2, 3} /\ impl \in Impls) =>
      /\ curry("ge", arity) = curry("sw", arity)
      /\ (pc = "called" /\ Wrapper(last.code) /\ WellFormed(last.chain)) =>
            /\ Body("ge", last.code, OwnEnv, OwnCall) = Observed
            /\ Body("sw", last.code, OwnEnv, OwnCall) = Observed
            /\ last.out.tag \notin {"closure", "undefined"} =>
                  last.out = Target(kind, last.invoked[1])

C25_Witness ==
    /\ arity = 3
    /\ impl \in Impls
    /\ pc = "called"
    /\ WellFormed(last.chain)
    /\ Shape(last.chain) = <<1, 2>>
    /\ last.invoked = << Flatten(last.chain) >>
    /\ Body("ge", last.code, OwnEnv, OwnCall)
          = Body("sw", last.code, OwnEnv, OwnCall)

====
